---- MODULE Spec2Model ----
(***************************************************************************)
(* Model of extract-prayer-times.js: the time normaliser convertTo24Hour,  *)
(* the weekly sample processor, the month expansion and the run of         *)
(* extractPrayerTimes with its file writes, browser and exit status.       *)
(*                                                                         *)
(* JavaScript strings are sequences of one-character strings; `undefined`  *)
(* is the value Undefined; a number is a record that is either NaN or an   *)
(* integer.                                                                *)
(***************************************************************************)
EXTENDS Integers, Sequences, FiniteSets, TLC

VARIABLES
  pc,                \* position of the run inside extractPrayerTimes / top level
  browser,           \* "null" | "open" | "closed"
  closeCount,        \* how many times browser.close() resolved
  files,             \* names of the files written under outputDir
  extractedData,     \* what page.evaluate returned (sequence of scraped rows)
  processedWeekData, \* sequence of processed day records
  today,             \* [year, month, date] read by new Date() (month is 0-based)
  dayOfWeekMap,      \* weekday -> [athan, iqama]
  athanMonth, iqamaMonth,          \* current month tables
  athanNextMonth, iqamaNextMonth,  \* next month tables
  monthLog,          \* per day of the current month, which branch logged
  error,             \* message of the error thrown, or "none"
  exitCode,          \* process exit status, NoExit while running
  cv                 \* the harness of the pure parts (SpecConv, SpecParse)

vars == <<pc, browser, closeCount, files, extractedData, processedWeekData,
          today, dayOfWeekMap, athanMonth, iqamaMonth, athanNextMonth,
          iqamaNextMonth, monthLog, error, exitCode, cv>>

(***************************************************************************)
(* Bounds of the model.                                                    *)
(***************************************************************************)
MaxStrLen == 3
MaxRows == 7
MaxDateLen == 4

(***************************************************************************)
(* JavaScript string and number primitives.                                *)
(***************************************************************************)
Undefined == <<"undefined">>

NaN == [nan |-> TRUE, v |-> 0]

Num(n) == [nan |-> FALSE, v |-> n]

Digits == <<"0", "1", "2", "3", "4", "5", "6", "7", "8", "9">>

IsDigit(c) == \E i \in 1..10 : Digits[i] = c

DigitVal(c) == (CHOOSE i \in 1..10 : Digits[i] = c) - 1

IsSpace(c) == c = " "

RECURSIVE trimStart(_)
trimStart(s) ==
  IF s # <<>> /\ IsSpace(Head(s)) THEN trimStart(Tail(s)) ELSE s

RECURSIVE trimEnd(_)
trimEnd(s) ==
  IF s # <<>> /\ IsSpace(s[Len(s)]) THEN trimEnd(SubSeq(s, 1, Len(s) - 1)) ELSE s

\* String.prototype.trim
trim(s) == trimEnd(trimStart(s))

\* String.prototype.includes for a one-character needle
includes(s, c) == \E i \in 1..Len(s) : s[i] = c

\* String.prototype.split for a one-character separator: the sequence of pieces
RECURSIVE split(_, _)
split(s, sep) ==
  IF ~includes(s, sep) THEN <<s>>
  ELSE LET i == CHOOSE k \in 1..Len(s) : s[k] = sep /\ \A j \in 1..(k - 1) : s[j] # sep
       IN  <<SubSeq(s, 1, i - 1)>> \o split(SubSeq(s, i + 1, Len(s)), sep)

\* pieces[k] of a JavaScript array (0-based k): undefined past the end
At(pieces, k) == IF k + 1 <= Len(pieces) THEN pieces[k + 1] ELSE Undefined

RECURSIVE digitsValue(_, _)
digitsValue(s, acc) ==
  IF s # <<>> /\ IsDigit(Head(s))
  THEN digitsValue(Tail(s), acc * 10 + DigitVal(Head(s)))
  ELSE acc

\* parseInt(s): leading white space skipped, then the longest run of decimal
\* digits; NaN when there is none (also for undefined, which reads "undefined")
parseInt(s) ==
  IF s = Undefined THEN NaN
  ELSE LET t == trimStart(s)
       IN  IF t # <<>> /\ IsDigit(Head(t)) THEN Num(digitsValue(t, 0)) ELSE NaN

RECURSIVE natToString(_)
natToString(n) ==
  IF n < 10 THEN <<Digits[n + 1]>>
  ELSE natToString(n \div 10) \o <<Digits[(n % 10) + 1]>>

\* Number.prototype.toString
toString(x) == IF x.nan THEN <<"N", "a", "N">> ELSE natToString(x.v)

\* String.prototype.padStart(width, '0')
RECURSIVE padStart(_, _)
padStart(s, width) == IF Len(s) >= width THEN s ELSE padStart(<<"0">> \o s, width)

(***************************************************************************)
(* convertTo24Hour (lines 44-71).                                          *)
(***************************************************************************)
\* Mutant: the 12 -> 0 rule of the morning prayers is missing.
adjustHours_noMidnight(hours, prayerName) ==
  IF prayerName \in {"Fajr", "Sunrise"} THEN hours
  ELSE IF prayerName \in {"Dhuhr", "Asr", "Magrib", "Isha"}
       THEN (IF hours.nan THEN NaN
             ELSE IF hours.v # 12 THEN Num(hours.v + 12) ELSE hours)
       ELSE hours

\* the AM/PM rule keyed by the prayer name
adjustHours(hours, prayerName) ==
  IF prayerName = "Fajr" \/ prayerName = "Sunrise"
  THEN (IF ~hours.nan /\ hours.v = 12 THEN Num(0) ELSE hours)
  ELSE IF prayerName = "Dhuhr" \/ prayerName = "Asr"
       THEN (IF hours.nan THEN NaN
             ELSE IF hours.v # 12 THEN Num(hours.v + 12) ELSE hours)
       ELSE IF prayerName = "Magrib" \/ prayerName = "Isha"
            THEN (IF hours.nan THEN NaN
                  ELSE IF hours.v # 12 THEN Num(hours.v + 12) ELSE hours)
            ELSE hours

\* the first listed time when the string holds a comma
firstTime(timeStr) ==
  IF includes(timeStr, ",") THEN trim(At(split(timeStr, ","), 0)) ELSE timeStr

\* parse, adjust and format with leading zeros
formatTime(timeStr, prayerName) ==
  LET hours   == parseInt(At(split(timeStr, ":"), 0))
      minutes == parseInt(At(split(timeStr, ":"), 1))
  IN  padStart(toString(adjustHours(hours, prayerName)), 2)
        \o <<":">> \o padStart(toString(minutes), 2)

\* Mutant: only `!timeStr` is tested, a blank string is not.
convertTo24Hour_noBlank(timeStr, prayerName) ==
  IF timeStr = Undefined \/ timeStr = <<>> THEN <<>>
  ELSE formatTime(firstTime(timeStr), prayerName)

convertTo24Hour(timeStr, prayerName) ==
  IF timeStr = Undefined \/ timeStr = <<>> \/ trim(timeStr) = <<>> THEN <<>>
  ELSE formatTime(firstTime(timeStr), prayerName)

(***************************************************************************)
(* Per-day processing of the scraped rows (lines 164-201).  The prayers of *)
(* a row are the entries of a JavaScript object in insertion order: a      *)
(* sequence of [name, start, iqamah] with distinct names.                  *)
(***************************************************************************)
AthanKeys == {"Fajr", "Sunrise", "Dhuhr", "Asr", "Maghrib", "Isha"}

IqamaKeys == {"Fajr", "Dhuhr", "Asr", "Maghrib", "Isha"}

\* athanRow and iqamaRow as created for each day
athanRowInit == [k \in AthanKeys |-> <<>>]

iqamaRowInit == [k \in IqamaKeys |-> <<>>]

\* Mutant: the spelling is not corrected.
correctedNameOf_asScraped(name) == name

\* Fix the "Magrib" to "Maghrib" spelling
correctedNameOf(name) == IF name = "Magrib" THEN "Maghrib" ELSE name

\* the body of the forEach over Object.entries(day.prayers), for one entry
processEntry(rows, e) ==
  LET correctedName == correctedNameOf(e.name)
      start24  == convertTo24Hour(e.start, e.name)
      iqamah24 == convertTo24Hour(e.iqamah, e.name)
  IN  [athan |-> IF correctedName \in DOMAIN rows.athan
                 THEN [rows.athan EXCEPT ![correctedName] = start24]
                 ELSE rows.athan,
       iqama |-> IF correctedName \in DOMAIN rows.iqama /\ correctedName # "Sunrise"
                 THEN [rows.iqama EXCEPT ![correctedName] = iqamah24]
                 ELSE rows.iqama]

RECURSIVE processEntries(_, _)
processEntries(rows, entries) ==
  IF entries = <<>> THEN rows
  ELSE processEntries(processEntry(rows, Head(entries)), Tail(entries))

\* the record pushed to processedWeekData for one valid day
processDay(day) ==
  LET rows == processEntries([athan |-> athanRowInit, iqama |-> iqamaRowInit],
                             day.prayers)
  IN  [dayNumber |-> day.dayNumber, dayOfWeek |-> day.dayOfWeek,
       isToday |-> day.isToday, athan |-> rows.athan, iqama |-> rows.iqama]

\* Mutant: the filter tests dayNumber < 0, so a row with dayNumber 0 is kept.
skipDay_strict(day) == day.dayNumber < 0

\* Mutant: no row is skipped.
skipDay_never(day) == FALSE

\* Skip any entries with invalid day numbers
skipDay(day) == day.dayNumber <= 0

RECURSIVE processWeek(_)
processWeek(data) ==
  IF data = <<>> THEN <<>>
  ELSE IF skipDay(Head(data)) THEN processWeek(Tail(data))
       ELSE <<processDay(Head(data))>> \o processWeek(Tail(data))

(***************************************************************************)
(* The harness of the pure part: one prayer entry of one day is processed. *)
(***************************************************************************)
Alphabet == {"0", "1", "2", ":", ",", " ", "P"}

StringsUpTo(n) == UNION {[1..k -> Alphabet] : k \in 0..n}

ConvMinutes == {0, 5, 30, 59}

\* the raw time 'H:MM' as the page prints it
RawTime(h, m) == natToString(h) \o <<":">> \o padStart(natToString(m), 2)

CommaHeads == {RawTime(1, 0), RawTime(12, 30), <<" ">> \o RawTime(1, 0) \o <<" ">>,
               RawTime(7, 5) \o <<" ">>}

CommaTails == {RawTime(2, 30), <<>>, <<" ">> \o RawTime(2, 30) \o <<",">> \o RawTime(3, 0)}

ConvTimes ==
  {Undefined} \cup StringsUpTo(MaxStrLen)
    \cup {RawTime(h, m) : h \in 1..12, m \in ConvMinutes}
    \cup {a \o <<",">> \o b : a \in CommaHeads, b \in CommaTails}

ConvNames == {"Fajr", "Sunrise", "Dhuhr", "Asr", "Maghrib", "Magrib", "Isha", "Jumuah"}

ConvIqamahs == {<<>>, RawTime(6, 15)}

cvIdle == [pc |-> "idle"]

ConvCall ==
  /\ cv.pc = "call"
  /\ LET e    == [name |-> cv.name, start |-> cv.start, iqamah |-> cv.iqamah]
         rows == processEntry([athan |-> athanRowInit, iqama |-> iqamaRowInit], e)
     IN  cv' = [cv EXCEPT !.pc = "done",
                          !.start24 = convertTo24Hour(cv.start, cv.name),
                          !.iqamah24 = convertTo24Hour(cv.iqamah, cv.name),
                          !.athan = rows.athan,
                          !.iqama = rows.iqama]
  /\ UNCHANGED <<pc, browser, closeCount, files, extractedData, processedWeekData,
                 today, dayOfWeekMap, athanMonth, iqamaMonth, athanNextMonth,
                 iqamaNextMonth, monthLog, error, exitCode>>

(***************************************************************************)
(* The day text of a row (lines 104-120): dateday.match(/(\d+)\s+(\w+)/),  *)
(* dayNumber, dayName and dayOfWeek.                                       *)
(***************************************************************************)
Letters ==
  {"A", "B", "C", "D", "E", "F", "G", "H", "I", "J", "K", "L", "M", "N", "O", "P", "Q",
   "R", "S", "T", "U", "V", "W", "X", "Y", "Z", "a", "b", "c", "d", "e", "f", "g", "h",
   "i", "j", "k", "l", "m", "n", "o", "p", "q", "r", "s", "t", "u", "v", "w", "x", "y",
   "z"}

\* \w
IsWordChar(c) == IsDigit(c) \/ c \in Letters \/ c = "_"

\* membership in the character classes \d, \s and \w
IsClass(class, c) ==
  CASE class = "d" -> IsDigit(c)
    [] class = "s" -> IsSpace(c)
    [] OTHER -> IsWordChar(c)

\* a greedy class+ from position i: the last position of the run, i - 1 if empty
runEnd(s, i, class) ==
  CHOOSE j \in (i - 1)..Len(s) :
    /\ \A k \in i..j : IsClass(class, s[k])
    /\ j = Len(s) \/ ~IsClass(class, s[j + 1])

NoMatch == <<>>

\* /(\d+)\s+(\w+)/ tried at position i: <<match, group 1, group 2>> or NoMatch
matchAt(s, i) ==
  LET j == runEnd(s, i, "d")
      k == runEnd(s, j + 1, "s")
      l == runEnd(s, k + 1, "w")
  IN  IF j >= i /\ k >= j + 1 /\ l >= k + 1
      THEN <<SubSeq(s, i, l), SubSeq(s, i, j), SubSeq(s, k + 1, l)>>
      ELSE NoMatch

\* dateday.match(/(\d+)\s+(\w+)/): the leftmost match, null when there is none
match(s) ==
  IF \E i \in 1..Len(s) : matchAt(s, i) # NoMatch
  THEN matchAt(s, CHOOSE i \in 1..Len(s) :
                    /\ matchAt(s, i) # NoMatch
                    /\ \A h \in 1..(i - 1) : matchAt(s, h) = NoMatch)
  ELSE NoMatch

\* row.querySelector('.dateday')?.textContent.trim() || ''
datedayOf(text) == IF text = Undefined THEN <<>> ELSE trim(text)

\* dateMatch ? dateMatch[2] : ''
dayNameOf(dateMatch) == IF dateMatch # NoMatch THEN dateMatch[3] ELSE <<>>

\* the if / else if chain of lines 113-120
dayOfWeekOf(dayName) ==
  IF dayName = <<"S", "u", "n">> THEN 0
  ELSE IF dayName = <<"M", "o", "n">> THEN 1
  ELSE IF dayName = <<"T", "u", "e">> THEN 2
  ELSE IF dayName = <<"W", "e", "d">> THEN 3
  ELSE IF dayName = <<"T", "h", "u">> THEN 4
  ELSE IF dayName = <<"F", "r", "i">> THEN 5
  ELSE IF dayName = <<"S", "a", "t">> THEN 6
  ELSE -1

\* Mutant: the day number is kept only when the day name is a known one.
dayNumberOf_knownDayOnly(dateMatch) ==
  IF dateMatch # NoMatch /\ dayOfWeekOf(dateMatch[3]) >= 0
  THEN parseInt(dateMatch[2]).v
  ELSE 0

\* dateMatch ? parseInt(dateMatch[1]) : 0
dayNumberOf(dateMatch) == IF dateMatch # NoMatch THEN parseInt(dateMatch[2]).v ELSE 0

\* the row page.evaluate returns for a day text (no time cells)
rowOf(text) ==
  LET dateday   == datedayOf(text)
      dateMatch == match(dateday)
  IN  [dayNumber |-> dayNumberOf(dateMatch),
       dayOfWeek |-> dayOfWeekOf(dayNameOf(dateMatch)),
       isToday   |-> FALSE,
       prayers   |-> <<>>]

(***************************************************************************)
(* The harness of the day text: one text is parsed and the row it gives is *)
(* put through the dayNumber filter of processWeek.                        *)
(***************************************************************************)
DateAlphabet == {"0", "5", " ", "M", "o", "n", "-"}

DateStringsUpTo(n) == UNION {[1..k -> DateAlphabet] : k \in 0..n}

DateHeads == {<<>>, <<" ">>, <<"x", " ">>, <<"1">>}

DateDigits == {<<"5">>, <<"0">>, <<"1", "2">>, <<"0", "0", "7">>, <<"3", "1">>}

DateGaps == {<<" ">>, <<" ", " ">>, <<>>}

DateWords ==
  {<<"S", "u", "n">>, <<"M", "o", "n">>, <<"T", "u", "e">>, <<"W", "e", "d">>,
   <<"T", "h", "u">>, <<"F", "r", "i">>, <<"S", "a", "t">>, <<"X", "y", "z">>,
   <<"M", "o", "n", "d", "a", "y">>, <<"m", "o", "n">>, <<"5">>, <<"-", "M", "o", "n">>}

DateTails == {<<>>, <<" ">>, <<" ", "x">>, <<",">>}

DateTexts ==
  {Undefined} \cup DateStringsUpTo(MaxDateLen)
    \cup {h \o d \o g \o w \o t :
            h \in DateHeads, d \in DateDigits, g \in DateGaps, w \in DateWords,
            t \in DateTails}

ParseRow ==
  /\ cv.pc = "parse"
  /\ LET row == rowOf(cv.text)
     IN  cv' = [cv EXCEPT !.pc = "parsed",
                          !.dayNumber = row.dayNumber,
                          !.dayOfWeek = row.dayOfWeek,
                          !.kept = processWeek(<<row>>) # <<>>]
  /\ UNCHANGED <<pc, browser, closeCount, files, extractedData, processedWeekData,
                 today, dayOfWeekMap, athanMonth, iqamaMonth, athanNextMonth,
                 iqamaNextMonth, monthLog, error, exitCode>>

(***************************************************************************)
(* JavaScript Date: new Date(year, month, day) in local time, with the     *)
(* month and the day normalised (month 12 is January of the next year,     *)
(* day 0 the last day of the month before), as a count of days since       *)
(* 1970-01-01.                                                             *)
(***************************************************************************)
daysFromCivil(y, m, d) ==
  LET yy  == IF m <= 2 THEN y - 1 ELSE y
      era == yy \div 400
      yoe == yy - era * 400
      mp  == IF m > 2 THEN m - 3 ELSE m + 9
      doy == (153 * mp + 2) \div 5 + d - 1
      doe == yoe * 365 + yoe \div 4 - yoe \div 100 + doy
  IN  era * 146097 + doe - 719468

civilFromDays(z0) ==
  LET z   == z0 + 719468
      era == z \div 146097
      doe == z - era * 146097
      yoe == (doe - doe \div 1460 + doe \div 36524 - doe \div 146096) \div 365
      doy == doe - (365 * yoe + yoe \div 4 - yoe \div 100)
      mp  == (5 * doy + 2) \div 153
      d   == doy - (153 * mp + 2) \div 5 + 1
      m   == IF mp < 10 THEN mp + 3 ELSE mp - 9
      y   == yoe + era * 400 + (IF m <= 2 THEN 1 ELSE 0)
  IN  [year |-> y, month |-> m - 1, date |-> d]

\* new Date(year, month, day): month is 0-based and may be 12, day may be 0
newDate(year, month, day) ==
  daysFromCivil(year + month \div 12, (month % 12) + 1, 1) + day - 1

getDate(t) == civilFromDays(t).date

getMonth(t) == civilFromDays(t).month

getFullYear(t) == civilFromDays(t).year

\* 1970-01-01 was a Thursday
getDay(t) == (t + 4) % 7

\* Mutant: day 0 of the target month itself, i.e. the length of the month before.
daysInMonthOf_prevMonth(year, month) == getDate(newDate(year, month, 0))

\* new Date(year, month + 1, 0).getDate()
daysInMonthOf(year, month) == getDate(newDate(year, month + 1, 0))

(***************************************************************************)
(* Sort, day-of-week map and month expansion (lines 207-280, 334-373).     *)
(***************************************************************************)
RECURSIVE insertByDayNumber(_, _)
insertByDayNumber(sorted, r) ==
  IF sorted = <<>> THEN <<r>>
  ELSE IF sorted[Len(sorted)].dayNumber - r.dayNumber <= 0 THEN Append(sorted, r)
       ELSE Append(insertByDayNumber(SubSeq(sorted, 1, Len(sorted) - 1), r),
                   sorted[Len(sorted)])

\* Mutant: the records stay in the order they were scraped in.
sortByDayNumber_asScraped(data) == data

\* processedWeekData.sort((a, b) => a.dayNumber - b.dayNumber): a stable sort
RECURSIVE sortByDayNumber(_)
sortByDayNumber(data) ==
  IF data = <<>> THEN <<>>
  ELSE insertByDayNumber(sortByDayNumber(SubSeq(data, 1, Len(data) - 1)),
                         data[Len(data)])

\* Mutant: a weekday that has an entry keeps it.
mapPut_keepFirst(map, day) ==
  IF day.dayOfWeek >= 0 /\ day.dayOfWeek \notin DOMAIN map
  THEN [w \in DOMAIN map \cup {day.dayOfWeek} |->
          IF w = day.dayOfWeek THEN [athan |-> day.athan, iqama |-> day.iqama]
          ELSE map[w]]
  ELSE map

\* dayOfWeekMap[day.dayOfWeek] = {athan, iqama} for one record
mapPut(map, day) ==
  IF day.dayOfWeek >= 0
  THEN [w \in DOMAIN map \cup {day.dayOfWeek} |->
          IF w = day.dayOfWeek THEN [athan |-> day.athan, iqama |-> day.iqama]
          ELSE map[w]]
  ELSE map

RECURSIVE buildDayOfWeekMap(_, _)
buildDayOfWeekMap(map, data) ==
  IF data = <<>> THEN map
  ELSE buildDayOfWeekMap(mapPut(map, Head(data)), Tail(data))

emptyMap == [w \in {} |-> <<>>]

\* processedWeekData.find(d => d.dayNumber === day): index of the first, 0 if none
findDay(data, day) ==
  IF \E i \in 1..Len(data) : data[i].dayNumber = day
  THEN CHOOSE i \in 1..Len(data) :
         data[i].dayNumber = day /\ \A j \in 1..(i - 1) : data[j].dayNumber # day
  ELSE 0

\* { day: day, ...cells }
spread(day, cells) ==
  [k \in {"day"} \cup DOMAIN cells |-> IF k = "day" THEN day ELSE cells[k]]

\* Mutant: the fallback takes the last record instead of the first.
patternOrFirst_last(data, map, dayOfWeek) ==
  IF dayOfWeek \in DOMAIN map
  THEN [src |-> "pattern", athan |-> map[dayOfWeek].athan, iqama |-> map[dayOfWeek].iqama]
  ELSE [src |-> "fallback", athan |-> data[Len(data)].athan, iqama |-> data[Len(data)].iqama]

\* day-of-week pattern, else the data of the first day
patternOrFirst(data, map, dayOfWeek) ==
  IF dayOfWeek \in DOMAIN map
  THEN [src |-> "pattern", athan |-> map[dayOfWeek].athan, iqama |-> map[dayOfWeek].iqama]
  ELSE [src |-> "fallback", athan |-> data[1].athan, iqama |-> data[1].iqama]

\* Mutant: the actual data of a sampled day is ignored.
currentDay_noActual(data, map, year, month, day) ==
  patternOrFirst(data, map, getDay(newDate(year, month, day)))

\* the body of the current month loop for one day
currentDay(data, map, year, month, day) ==
  LET i == findDay(data, day)
  IN  IF i # 0
      THEN [src |-> "actual", athan |-> data[i].athan, iqama |-> data[i].iqama]
      ELSE patternOrFirst(data, map, getDay(newDate(year, month, day)))

\* Mutant: the next month loop also looks for a record with the day's number.
nextDay_exactFirst(data, map, year, month, day) == currentDay(data, map, year, month, day)

\* the body of the next month loop for one day
nextDay(data, map, year, month, day) ==
  patternOrFirst(data, map, getDay(newDate(year, month, day)))

(***************************************************************************)
(* The rows a page can show (the result of page.evaluate, lines 98-146):   *)
(* up to MaxRows consecutive days starting at any of DayStarts, in page    *)
(* order or reversed, with at most one kind of defect, the label layouts   *)
(* of Layouts taken in turn by the rows.  A defect is a dateday text that  *)
(* did not parse ("unparsed"), one with an unknown weekday ("badname"),    *)
(* one with day number 0 ("zero"), or a row repeating the day number       *)
(* ("dup"), the weekday ("sameday") or both ("twin") of the row before.    *)
(***************************************************************************)
DayStarts == {1, 27}

WeekdayStarts == {0, 3}

\* the layout the first row takes, by the day the page starts at
LayoutStart(d0) == IF d0 = 1 THEN 0 ELSE 3

Defects == {"none", "unparsed", "badname", "zero", "dup", "sameday", "twin", "allunparsed"}

DefectRows == {1, 3}

Layouts == <<"site", "spelled", "both", "bothrev", "empty">>

Entry(name, start, iqamah) == [name |-> name, start |-> start, iqamah |-> iqamah]

\* the prayers object of row i under a layout; the minutes tell the rows apart
Prayers(layout, i) ==
  CASE layout = "site" ->
         <<Entry("Fajr", RawTime(5, i), RawTime(6, i)),
           Entry("Sunrise", RawTime(7, i), <<>>),
           Entry("Dhuhr", RawTime(12, i), RawTime(1, i)),
           Entry("Asr", RawTime(4, i), RawTime(5, i)),
           Entry("Magrib", RawTime(8, i), RawTime(8, i + 10)),
           Entry("Isha", RawTime(9, i), RawTime(10, i))>>
    [] layout = "spelled" ->
         <<Entry("Fajr", RawTime(12, i), RawTime(5, i)),
           Entry("Sunrise", RawTime(6, i), RawTime(6, i + 20)),
           Entry("Dhuhr", RawTime(1, i) \o <<",">> \o RawTime(2, 30), RawTime(1, i + 30)),
           Entry("Maghrib", RawTime(7, i), RawTime(7, i + 10)),
           Entry("Isha", RawTime(9, i), <<>>),
           Entry("Jumuah", RawTime(1, i), RawTime(2, i))>>
    [] layout = "both" ->
         <<Entry("Magrib", RawTime(8, i), RawTime(8, i + 10)),
           Entry("Maghrib", RawTime(7, i), RawTime(7, i + 10)),
           Entry("Fajr", RawTime(5, i), <<>>)>>
    [] layout = "bothrev" ->
         <<Entry("Maghrib", RawTime(7, i), RawTime(7, i + 10)),
           Entry("Magrib", RawTime(8, i), RawTime(8, i + 10)),
           Entry("Sunrise", RawTime(6, i), RawTime(6, i + 20))>>
    [] OTHER -> <<>>

\* the day of the month of the i-th consecutive day from d0 (months of 31 days)
ConsecutiveDay(d0, i) == ((d0 + i - 2) % 31) + 1

PageRow(i, d0, w0, l0, defect, k) ==
  [dayNumber |-> IF defect = "allunparsed" \/ (defect \in {"unparsed", "zero"} /\ i = k)
                 THEN 0
                 ELSE IF defect \in {"dup", "twin"} /\ i = k /\ i > 1
                      THEN ConsecutiveDay(d0, i - 1)
                      ELSE ConsecutiveDay(d0, i),
   dayOfWeek |-> IF defect = "allunparsed" \/ (defect \in {"unparsed", "badname"} /\ i = k)
                 THEN -1
                 ELSE IF defect \in {"sameday", "twin"} /\ i = k /\ i > 1
                      THEN (w0 + i - 2) % 7
                      ELSE (w0 + i - 1) % 7,
   isToday   |-> i = w0 + 1,
   prayers   |-> Prayers(Layouts[((l0 + i - 1) % Len(Layouts)) + 1], i)]

Reverse(q) == [i \in 1..Len(q) |-> q[Len(q) + 1 - i]]

PageRows(n, d0, w0, l0, defect, k, rev) ==
  LET rows == [i \in 1..n |-> PageRow(i, d0, w0, l0, defect, k)]
  IN  IF rev THEN Reverse(rows) ELSE rows

Pages ==
  {PageRows(n, d0, w0, LayoutStart(d0), defect, k, rev) :
     n \in 0..MaxRows, d0 \in DayStarts, w0 \in WeekdayStarts,
     defect \in Defects, k \in DefectRows, rev \in BOOLEAN}

\* the dates new Date() can read, month 0-based
Todays == {[year |-> 2023, month |-> 1, date |-> 14], [year |-> 2024, month |-> 1, date |-> 1],
           [year |-> 2024, month |-> 1, date |-> 29],
           [year |-> 2023, month |-> 11, date |-> 31], [year |-> 2024, month |-> 5, date |-> 2]}

NoDate == [year |-> 0, month |-> 0, date |-> 0]

(***************************************************************************)
(* The run: extractPrayerTimes (lines 73-392) and the top level (395-403). *)
(***************************************************************************)
CurrentCsvs == {"athan_times_current.csv", "iqama_times_current.csv"}

NextCsvs == {"athan_times_next.csv", "iqama_times_next.csv"}

\* the messages of the errors thrown on an empty extraction and on a failed write
NoDataMessage == "No prayer data found on the page"

TypeErrorMessage == "TypeError: Cannot read properties of undefined (reading 'athan')"

CsvWriteMessage == "CSV write failed"

\* the local variables of extractPrayerTimes, gone once the function is left
LocalsGone ==
  /\ extractedData' = <<>>
  /\ processedWeekData' = <<>>
  /\ today' = NoDate
  /\ dayOfWeekMap' = emptyMap
  /\ athanMonth' = <<>>
  /\ iqamaMonth' = <<>>
  /\ athanNextMonth' = <<>>
  /\ iqamaNextMonth' = <<>>
  /\ monthLog' = <<>>

\* an error thrown inside the try block
Throw(message) ==
  /\ pc' = "catch"
  /\ error' = message
  /\ LocalsGone

Init ==
  /\ pc = "launch"
  /\ browser = "null"
  /\ closeCount = 0
  /\ files = {}
  /\ extractedData = <<>>
  /\ processedWeekData = <<>>
  /\ today = NoDate
  /\ dayOfWeekMap = emptyMap
  /\ athanMonth = <<>>
  /\ iqamaMonth = <<>>
  /\ athanNextMonth = <<>>
  /\ iqamaNextMonth = <<>>
  /\ monthLog = <<>>
  /\ error = "none"
  /\ exitCode = -1
  /\ cv = cvIdle

\* browser = await puppeteer.launch(...)
Launch ==
  /\ pc = "launch"
  /\ \/ /\ browser' = "open"
        /\ pc' = "newPage"
        /\ UNCHANGED <<error, extractedData, processedWeekData, today, dayOfWeekMap,
                       athanMonth, iqamaMonth, athanNextMonth, iqamaNextMonth, monthLog>>
     \/ /\ Throw("launch failed")
        /\ UNCHANGED browser
  /\ UNCHANGED <<closeCount, files, exitCode, cv>>

\* newPage, goto, waitForSelector: each resolves or rejects
PageStep(at, then, message) ==
  /\ pc = at
  /\ \/ /\ pc' = then
        /\ UNCHANGED <<error, extractedData, processedWeekData, today, dayOfWeekMap,
                       athanMonth, iqamaMonth, athanNextMonth, iqamaNextMonth, monthLog>>
     \/ Throw(message)
  /\ UNCHANGED <<browser, closeCount, files, exitCode, cv>>

NewPage == PageStep("newPage", "goto", "newPage failed")

Goto == PageStep("goto", "waitForSelector", "Navigation timeout")

WaitForSelector == PageStep("waitForSelector", "screenshot", "Waiting for selector failed")

\* await page.screenshot({ path: prayer_table.png })
Screenshot ==
  /\ pc = "screenshot"
  /\ \/ /\ pc' = "evaluate"
        /\ files' = files \cup {"prayer_table.png"}
        /\ UNCHANGED <<error, extractedData, processedWeekData, today, dayOfWeekMap,
                       athanMonth, iqamaMonth, athanNextMonth, iqamaNextMonth, monthLog>>
     \/ /\ Throw("screenshot failed")
        /\ UNCHANGED files
  /\ UNCHANGED <<browser, closeCount, exitCode, cv>>

\* extractedData = await page.evaluate(...)
Evaluate ==
  /\ pc = "evaluate"
  /\ \/ /\ \E page \in Pages : extractedData' = page
        /\ pc' = "saveRaw"
        /\ UNCHANGED <<error, processedWeekData, today, dayOfWeekMap,
                       athanMonth, iqamaMonth, athanNextMonth, iqamaNextMonth, monthLog>>
     \/ Throw("evaluate failed")
  /\ UNCHANGED <<browser, closeCount, files, exitCode, cv>>

\* fs.writeFileSync(raw_data.json)
SaveRaw ==
  /\ pc = "saveRaw"
  /\ \/ /\ pc' = "checkEmpty"
        /\ files' = files \cup {"raw_data.json"}
        /\ UNCHANGED <<error, extractedData, processedWeekData, today, dayOfWeekMap,
                       athanMonth, iqamaMonth, athanNextMonth, iqamaNextMonth, monthLog>>
     \/ /\ Throw("raw_data.json write failed")
        /\ UNCHANGED files
  /\ UNCHANGED <<browser, closeCount, exitCode, cv>>

\* if (extractedData.length === 0) throw new Error(...)
CheckEmpty ==
  /\ pc = "checkEmpty"
  /\ IF Len(extractedData) = 0
     THEN Throw(NoDataMessage)
     ELSE /\ pc' = "process"
          /\ UNCHANGED <<error, extractedData, processedWeekData, today, dayOfWeekMap,
                         athanMonth, iqamaMonth, athanNextMonth, iqamaNextMonth, monthLog>>
  /\ UNCHANGED <<browser, closeCount, files, exitCode, cv>>

\* the forEach that fills processedWeekData, then processedWeekData[0].athan is read
Process ==
  /\ pc = "process"
  /\ LET data == processWeek(extractedData)
     IN  IF data = <<>>
         THEN Throw(TypeErrorMessage)
         ELSE /\ processedWeekData' = data
              /\ pc' = "expand"
              /\ UNCHANGED <<error, extractedData, today, dayOfWeekMap,
                             athanMonth, iqamaMonth, athanNextMonth, iqamaNextMonth, monthLog>>
  /\ UNCHANGED <<browser, closeCount, files, exitCode, cv>>

\* sort, new Date(), dayOfWeekMap and the current month loop
Expand ==
  /\ pc = "expand"
  /\ \E t \in Todays :
       LET data == sortByDayNumber(processedWeekData)
           map  == buildDayOfWeekMap(emptyMap, data)
           rows == [day \in 1..daysInMonthOf(t.year, t.month) |->
                      currentDay(data, map, t.year, t.month, day)]
       IN  /\ today' = t
           /\ processedWeekData' = data
           /\ dayOfWeekMap' = map
           /\ athanMonth' = [day \in DOMAIN rows |-> spread(day, rows[day].athan)]
           /\ iqamaMonth' = [day \in DOMAIN rows |-> spread(day, rows[day].iqama)]
           /\ monthLog' = [day \in DOMAIN rows |-> rows[day].src]
  /\ pc' = "writeAthan"
  /\ UNCHANGED <<browser, closeCount, files, extractedData, athanNextMonth,
                 iqamaNextMonth, error, exitCode, cv>>

\* await csvWriter.writeRecords(...): the file is written or the write rejects
WriteCsv(at, then, file) ==
  /\ pc = at
  /\ \/ /\ pc' = then
        /\ files' = files \cup {file}
        /\ UNCHANGED <<error, extractedData, processedWeekData, today, dayOfWeekMap,
                       athanMonth, iqamaMonth, athanNextMonth, iqamaNextMonth, monthLog>>
     \/ /\ Throw(CsvWriteMessage)
        /\ UNCHANGED files
  /\ UNCHANGED <<browser, closeCount, exitCode, cv>>

WriteAthan == WriteCsv("writeAthan", "writeIqama", "athan_times_current.csv")

WriteIqama == WriteCsv("writeIqama", "expandNext", "iqama_times_current.csv")

\* Mutant: the next month CSVs are written before the next month loop has run.
ExpandNext_notYet ==
  /\ pc = "expandNext"
  /\ pc' = "writeAthanNext"
  /\ UNCHANGED <<browser, closeCount, files, extractedData, processedWeekData, today,
                 dayOfWeekMap, athanMonth, iqamaMonth, athanNextMonth, iqamaNextMonth,
                 monthLog, error, exitCode, cv>>

\* new Date(currentYear, currentMonth + 1, 1) and the next month loop
ExpandNext ==
  /\ pc = "expandNext"
  /\ LET nextMonthDate == newDate(today.year, today.month + 1, 1)
         nextMonth     == getMonth(nextMonthDate)
         nextYear      == getFullYear(nextMonthDate)
         rows == [day \in 1..daysInMonthOf(nextYear, nextMonth) |->
                    nextDay(processedWeekData, dayOfWeekMap, nextYear, nextMonth, day)]
     IN  /\ athanNextMonth' = [day \in DOMAIN rows |-> spread(day, rows[day].athan)]
         /\ iqamaNextMonth' = [day \in DOMAIN rows |-> spread(day, rows[day].iqama)]
  /\ pc' = "writeAthanNext"
  /\ UNCHANGED <<browser, closeCount, files, extractedData, processedWeekData, today,
                 dayOfWeekMap, athanMonth, iqamaMonth, monthLog, error, exitCode, cv>>

WriteAthanNext == WriteCsv("writeAthanNext", "writeIqamaNext", "athan_times_next.csv")

\* the last write; when it resolves the function returns and its locals are gone
WriteIqamaNext ==
  /\ pc = "writeIqamaNext"
  /\ \/ /\ pc' = "finally"
        /\ files' = files \cup {"iqama_times_next.csv"}
        /\ LocalsGone
        /\ UNCHANGED error
     \/ /\ Throw(CsvWriteMessage)
        /\ UNCHANGED files
  /\ UNCHANGED <<browser, closeCount, exitCode, cv>>

\* catch (error) { logError(...); throw error; }
Catch ==
  /\ pc = "catch"
  /\ pc' = "finally"
  /\ UNCHANGED <<browser, closeCount, files, extractedData, processedWeekData, today,
                 dayOfWeekMap, athanMonth, iqamaMonth, athanNextMonth, iqamaNextMonth,
                 monthLog, error, exitCode, cv>>

\* Mutant: the browser is closed at the end of the try block only, not in finally.
Finally_afterSuccessOnly ==
  /\ pc = "finally"
  /\ IF browser = "open" /\ error = "none"
     THEN browser' = "closed" /\ closeCount' = closeCount + 1
     ELSE UNCHANGED <<browser, closeCount>>
  /\ pc' = "settled"
  /\ UNCHANGED <<files, extractedData, processedWeekData, today, dayOfWeekMap,
                 athanMonth, iqamaMonth, athanNextMonth, iqamaNextMonth, monthLog,
                 error, exitCode, cv>>

\* finally { if (browser) await browser.close(); }
Finally ==
  /\ pc = "finally"
  /\ IF browser = "open"
     THEN browser' = "closed" /\ closeCount' = closeCount + 1
     ELSE UNCHANGED <<browser, closeCount>>
  /\ pc' = "settled"
  /\ UNCHANGED <<files, extractedData, processedWeekData, today, dayOfWeekMap,
                 athanMonth, iqamaMonth, athanNextMonth, iqamaNextMonth, monthLog,
                 error, exitCode, cv>>

\* .then(() => process.exit(0)).catch(error => process.exit(1))
Exit ==
  /\ pc = "settled"
  /\ exitCode' = IF error = "none" THEN 0 ELSE 1
  /\ pc' = "exited"
  /\ UNCHANGED <<browser, closeCount, files, extractedData, processedWeekData, today,
                 dayOfWeekMap, athanMonth, iqamaMonth, athanNextMonth, iqamaNextMonth,
                 monthLog, error, cv>>

Next ==
  \/ Launch \/ NewPage \/ Goto \/ WaitForSelector \/ Screenshot \/ Evaluate
  \/ SaveRaw \/ CheckEmpty \/ Process \/ Expand \/ WriteAthan \/ WriteIqama
  \/ ExpandNext \/ WriteAthanNext \/ WriteIqamaNext \/ Catch \/ Finally \/ Exit

Spec == Init /\ [][Next]_vars

\* the positions of the run
Positions ==
  {"launch", "newPage", "goto", "waitForSelector", "screenshot", "evaluate", "saveRaw",
   "checkEmpty", "process", "expand", "writeAthan", "writeIqama", "expandNext",
   "writeAthanNext", "writeIqamaNext", "catch", "finally", "settled", "exited"}

\* the run leaves the position it is at; every step of Next is such a step, and
\* one is possible at every position but the last
MoveOn == pc # "exited" /\ pc' \in Positions /\ pc' # pc

\* Every awaited promise settles (goto and waitForSelector carry timeouts) and
\* the continuation of a settled promise is run: the run never stops before
\* process.exit.
SpecLive == Spec /\ WF_pc(MoveOn)

(***************************************************************************)
(* The specification of the pure part: every prayer entry of ConvNames x   *)
(* ConvTimes x ConvIqamahs is processed once.                              *)
(***************************************************************************)
InitConv ==
  /\ pc = "harness"
  /\ browser = "null"
  /\ closeCount = 0
  /\ files = {}
  /\ extractedData = <<>>
  /\ processedWeekData = <<>>
  /\ today = NoDate
  /\ dayOfWeekMap = emptyMap
  /\ athanMonth = <<>>
  /\ iqamaMonth = <<>>
  /\ athanNextMonth = <<>>
  /\ iqamaNextMonth = <<>>
  /\ monthLog = <<>>
  /\ error = "none"
  /\ exitCode = -1
  /\ \E name \in ConvNames, start \in ConvTimes, iqamah \in ConvIqamahs :
       cv = [pc |-> "call", name |-> name, start |-> start, iqamah |-> iqamah,
             start24 |-> <<>>, iqamah24 |-> <<>>,
             athan |-> athanRowInit, iqama |-> iqamaRowInit]

NextConv == ConvCall

SpecConv == InitConv /\ [][NextConv]_vars

(***************************************************************************)
(* The specification of the day text: every text of DateTexts is parsed    *)
(* once.                                                                   *)
(***************************************************************************)
InitParse ==
  /\ pc = "harness"
  /\ browser = "null"
  /\ closeCount = 0
  /\ files = {}
  /\ extractedData = <<>>
  /\ processedWeekData = <<>>
  /\ today = NoDate
  /\ dayOfWeekMap = emptyMap
  /\ athanMonth = <<>>
  /\ iqamaMonth = <<>>
  /\ athanNextMonth = <<>>
  /\ iqamaNextMonth = <<>>
  /\ monthLog = <<>>
  /\ error = "none"
  /\ exitCode = -1
  /\ \E text \in DateTexts :
       cv = [pc |-> "parse", text |-> text, dayNumber |-> 0, dayOfWeek |-> -1,
             kept |-> FALSE]

NextParse == ParseRow

SpecParse == InitParse /\ [][NextParse]_vars

(***************************************************************************)
(* Reference notions the claims are stated with.                           *)
(***************************************************************************)
\* n in 0..99 as two decimal digits
Pad2(n) == <<Digits[(n \div 10) + 1], Digits[(n % 10) + 1]>>

\* the 24-hour clock time HH:MM
ClockTime(h, m) == Pad2(h) \o <<":">> \o Pad2(m)

\* a raw time that is missing, empty or made of white space only
IsBlank(s) == s = Undefined \/ \A i \in 1..Len(s) : s[i] = " "

\* the text before the first comma, without the white space around it
HeadBeforeComma(s) ==
  LET i == CHOOSE k \in 1..Len(s) : s[k] = "," /\ \A j \in 1..(k - 1) : s[j] # ","
      h == SubSeq(s, 1, i - 1)
      a == {k \in 1..Len(h) : h[k] # " "}
  IN  IF a = {} THEN <<>>
      ELSE SubSeq(h, CHOOSE k \in a : \A j \in a : k <= j, CHOOSE k \in a : \A j \in a : k >= j)

(***************************************************************************)
(* Claims about convertTo24Hour and the per-prayer processing (SpecConv).  *)
(***************************************************************************)
\* C1: for every raw time H:MM, H in 1..12, and every scraped label in {Dhuhr, Asr,
\* Maghrib, Magrib, Isha}, the start time the sample processor gets from
\* convertTo24Hour has hour 12 when H = 12 and H + 12 otherwise, minute unchanged.
C1_AfternoonAdds12 ==
  \A h \in 1..12, m \in ConvMinutes :
    (/\ cv.pc = "done"
     /\ cv.name \in {"Dhuhr", "Asr", "Maghrib", "Magrib", "Isha"}
     /\ cv.start = RawTime(h, m))
      => cv.start24 = ClockTime(IF h = 12 THEN 12 ELSE h + 12, m)

\* C2: for every raw time H:MM, H in 1..12, and prayer name Fajr or Sunrise, the
\* result has hour 0 when H = 12 and H otherwise (so an hour in 0..11), zero-padded,
\* minute unchanged.
C2_MorningKeepsHour ==
  \A h \in 1..12, m \in ConvMinutes :
    (/\ cv.pc = "done"
     /\ cv.name \in {"Fajr", "Sunrise"}
     /\ cv.start = RawTime(h, m))
      => /\ cv.start24 = ClockTime(IF h = 12 THEN 0 ELSE h, m)
         /\ \E hh \in 0..11 : SubSeq(cv.start24, 1, 2) = Pad2(hh)

C2_Witness ==
  /\ cv.pc = "done"
  /\ cv.name = "Sunrise"
  /\ cv.start = RawTime(12, 30)
  /\ cv.start24 = ClockTime(0, 30)

\* C3: an empty, blank or missing raw time normalises to the empty string for any
\* prayer name, recognised or not, and the cells of the day's athan and iqama rows
\* stay empty.
C3_BlankGivesEmpty ==
  cv.pc = "done" =>
    /\ IsBlank(cv.start) =>
         /\ cv.start24 = <<>>
         /\ \A key \in DOMAIN cv.athan : cv.athan[key] = <<>>
    /\ IsBlank(cv.iqamah) =>
         /\ cv.iqamah24 = <<>>
         /\ \A key \in DOMAIN cv.iqama : cv.iqama[key] = <<>>

C3_Witness ==
  /\ cv.pc = "done"
  /\ cv.name = "Isha"
  /\ cv.start = <<" ", " ">>
  /\ cv.start24 = <<>>
  /\ cv.athan["Isha"] = <<>>

\* C4: when the raw time holds a comma, the result equals the normalisation of the
\* trimmed text before the first comma alone, for the same prayer name.
C4_CommaHeadOnly ==
  (cv.pc = "done" /\ cv.start # Undefined /\ includes(cv.start, ","))
    => cv.start24 = convertTo24Hour(HeadBeforeComma(cv.start), cv.name)

(***************************************************************************)
(* Reference notions for the claims about the run (Spec).                  *)
(***************************************************************************)
RefMonthLengths == <<31, 28, 31, 30, 31, 30, 31, 31, 30, 31, 30, 31>>

RefIsLeap(y) == (y % 4 = 0 /\ y % 100 # 0) \/ y % 400 = 0

\* the length of month m (0-based) of year y in the Gregorian calendar
RefDaysInMonth(y, m) == IF m = 1 /\ RefIsLeap(y) THEN 29 ELSE RefMonthLengths[m + 1]

\* the month after t
RefNextMonth(t) ==
  IF t.month = 11 THEN [year |-> t.year + 1, month |-> 0]
  ELSE [year |-> t.year, month |-> t.month + 1]

RefMonthOffsets == <<0, 3, 2, 5, 0, 3, 5, 1, 4, 6, 2, 4>>

\* the weekday (0 = Sunday) of day d of month m (0-based) of year y
RefWeekday(y, m, d) ==
  LET yy == IF m < 2 THEN y - 1 ELSE y
  IN  (yy + yy \div 4 - yy \div 100 + yy \div 400 + RefMonthOffsets[m + 1] + d) % 7

\* a table of n rows whose day fields are 1, 2, ..., n
IsFullMonth(table, n) == Len(table) = n /\ \A i \in 1..n : table[i].day = i

\* the row of day d that carries exactly the given cells
IsRowOf(row, d, cells) ==
  /\ DOMAIN row = {"day"} \cup DOMAIN cells
  /\ row.day = d
  /\ \A key \in DOMAIN cells : row[key] = cells[key]

\* positions of the try block at which the current / next month tables exist
CurrentBuilt ==
  pc \in {"writeAthan", "writeIqama", "expandNext", "writeAthanNext", "writeIqamaNext"}

NextBuilt == pc \in {"writeAthanNext", "writeIqamaNext"}

\* the scraped rows that survive the dayNumber filter, in page order
ValidRows(data) == SelectSeq(data, LAMBDA r : r.dayNumber > 0)

\* the weekdays for which the sample has no valid record
MissingWeekdays(data) ==
  {w \in 0..6 : ~\E i \in 1..Len(data) : data[i].dayNumber > 0 /\ data[i].dayOfWeek = w}

\* all valid, distinct day numbers, every weekday present
IsFullWeek(data) ==
  /\ data # <<>>
  /\ \A i \in 1..Len(data) : data[i].dayNumber > 0
  /\ \A i, j \in 1..Len(data) : data[i].dayNumber = data[j].dayNumber => i = j
  /\ MissingWeekdays(data) = {}

\* the valid row that comes first in dayNumber order (page order among equals)
RefFirstRow(data) ==
  LET v == ValidRows(data)
      i == CHOOSE k \in 1..Len(v) :
             /\ \A j \in 1..Len(v) : v[k].dayNumber <= v[j].dayNumber
             /\ \A j \in 1..(k - 1) : v[j].dayNumber # v[k].dayNumber
  IN  v[i]

\* a sampled valid row carries day number d
IsSampledDay(data, d) == \E i \in 1..Len(data) : data[i].dayNumber = d /\ d > 0

(***************************************************************************)
(* Claims about the month tables and the run (Spec).                       *)
(***************************************************************************)
\* C5: both tables of the current month and of the next month hold exactly
\* daysInMonth rows with day fields 1..daysInMonth in ascending order, also from
\* December into January of the next year and for February in leap and other years.
C5_MonthTablesComplete ==
  /\ CurrentBuilt =>
       /\ IsFullMonth(athanMonth, RefDaysInMonth(today.year, today.month))
       /\ IsFullMonth(iqamaMonth, RefDaysInMonth(today.year, today.month))
  /\ NextBuilt =>
       LET n == RefNextMonth(today)
       IN  /\ IsFullMonth(athanNextMonth, RefDaysInMonth(n.year, n.month))
           /\ IsFullMonth(iqamaNextMonth, RefDaysInMonth(n.year, n.month))

C5_Witness ==
  /\ pc = "writeIqamaNext"
  /\ today.year = 2023 /\ today.month = 11
  /\ Len(athanMonth) = 31
  /\ Len(iqamaNextMonth) = 31
  /\ athanNextMonth[31].day = 31

\* C6: when the sample covers all 7 weekdays with distinct valid day numbers, the
\* current month row of every sampled day number equals that record's athan and
\* iqama values, and no row of the current month comes from the first-record
\* fallback.
C6_FullWeekReproduced ==
  (CurrentBuilt /\ IsFullWeek(extractedData)) =>
    /\ \A i \in 1..Len(extractedData) :
         LET r == extractedData[i]
         IN  r.dayNumber <= Len(athanMonth) =>
               /\ IsRowOf(athanMonth[r.dayNumber], r.dayNumber, processDay(r).athan)
               /\ IsRowOf(iqamaMonth[r.dayNumber], r.dayNumber, processDay(r).iqama)
    /\ \A d \in 1..Len(monthLog) : monthLog[d] # "fallback"

C6_Witness ==
  /\ CurrentBuilt
  /\ IsFullWeek(extractedData)
  /\ \E d \in 1..Len(monthLog) : monthLog[d] = "actual"
  /\ \E d \in 1..Len(monthLog) : monthLog[d] = "pattern"
  /\ \E i \in 1..Len(extractedData) : extractedData[i].dayNumber > Len(athanMonth)

\* the rows of a table of month t on the days that fall on a weekday in Missing,
\* except the days in Skip, carry the given cells
FallbackRows(table, t, cells, Missing, Skip) ==
  \A d \in 1..Len(table) :
    (RefWeekday(t.year, t.month, d) \in Missing /\ d \notin Skip)
      => IsRowOf(table[d], d, cells)

\* C7 (as claimed): when the sample has no valid record for weekday w, every day
\* of the target month that falls on w carries the first record in dayNumber
\* order, in the current month as well as in the next.
C7_GapFallsBackEverywhere ==
  LET first   == processDay(RefFirstRow(extractedData))
      missing == MissingWeekdays(extractedData)
  IN  /\ CurrentBuilt =>
           /\ FallbackRows(athanMonth, today, first.athan, missing, {})
           /\ FallbackRows(iqamaMonth, today, first.iqama, missing, {})
      /\ NextBuilt =>
           /\ FallbackRows(athanNextMonth, RefNextMonth(today), first.athan, missing, {})
           /\ FallbackRows(iqamaNextMonth, RefNextMonth(today), first.iqama, missing, {})

\* C7 (amended): as above for the next month; in the current month only for the
\* days whose day number no sampled record carries (a sampled day number takes
\* that record's own values).
C7_GapFallsBackUnlessSampled ==
  LET first   == processDay(RefFirstRow(extractedData))
      missing == MissingWeekdays(extractedData)
      sampled == {d \in 1..31 : IsSampledDay(extractedData, d)}
  IN  /\ CurrentBuilt =>
           /\ FallbackRows(athanMonth, today, first.athan, missing, sampled)
           /\ FallbackRows(iqamaMonth, today, first.iqama, missing, sampled)
      /\ NextBuilt =>
           /\ FallbackRows(athanNextMonth, RefNextMonth(today), first.athan, missing, {})
           /\ FallbackRows(iqamaNextMonth, RefNextMonth(today), first.iqama, missing, {})

C7_Witness ==
  /\ NextBuilt
  /\ \E d \in 1..Len(monthLog) :
       /\ monthLog[d] = "fallback"
       /\ RefWeekday(today.year, today.month, d) \in MissingWeekdays(extractedData)
  /\ \E d \in 1..Len(monthLog) :
       /\ monthLog[d] = "actual"
       /\ RefWeekday(today.year, today.month, d) \in MissingWeekdays(extractedData)
  /\ \E d \in 1..Len(athanNextMonth) :
       LET n == RefNextMonth(today)
       IN  /\ RefWeekday(n.year, n.month, d) \in MissingWeekdays(extractedData)
           /\ IsSampledDay(extractedData, d)

ExactAthanKeys == {"day", "Fajr", "Sunrise", "Dhuhr", "Asr", "Maghrib", "Isha"}

ExactIqamaKeys == {"day", "Fajr", "Dhuhr", "Asr", "Maghrib", "Isha"}

\* every row of every table has exactly the columns of its kind
TableKeysExact ==
  /\ \A table \in {athanMonth, athanNextMonth} :
       \A i \in 1..Len(table) : DOMAIN table[i] = ExactAthanKeys
  /\ \A table \in {iqamaMonth, iqamaNextMonth} :
       \A i \in 1..Len(table) : DOMAIN table[i] = ExactIqamaKeys
  /\ \A k \in 1..Len(processedWeekData) :
       /\ DOMAIN processedWeekData[k].athan = ExactAthanKeys \ {"day"}
       /\ DOMAIN processedWeekData[k].iqama = ExactIqamaKeys \ {"day"}

\* entry j of the prayers is followed by an entry labelled name
FollowedBy(prayers, j, name) ==
  \E l \in (j + 1)..Len(prayers) : prayers[l].name = name

\* right after the processing (records still in page order): the Maghrib cells of
\* each record hold the times scraped under 'Magrib'; with unlessOverwritten, only
\* when no 'Maghrib' entry follows in the same row
MagribStored(unlessOverwritten) ==
  pc = "expand" =>
    LET v == ValidRows(extractedData)
    IN  \A k \in 1..Len(v) : \A j \in 1..Len(v[k].prayers) :
          LET e == v[k].prayers[j]
          IN  (/\ e.name = "Magrib"
               /\ ~(unlessOverwritten /\ FollowedBy(v[k].prayers, j, "Maghrib")))
                => /\ processedWeekData[k].athan["Maghrib"] = convertTo24Hour(e.start, "Magrib")
                   /\ processedWeekData[k].iqama["Maghrib"] = convertTo24Hour(e.iqamah, "Magrib")

\* C8 (as claimed): whatever labels are scraped, athan rows have exactly the keys
\* day, Fajr, Sunrise, Dhuhr, Asr, Maghrib, Isha and iqama rows exactly day, Fajr,
\* Dhuhr, Asr, Maghrib, Isha (no Magrib key, no Sunrise in iqama), and the times
\* scraped under 'Magrib' are stored under 'Maghrib'.
C8_KeysAndMagribAlways == TableKeysExact /\ MagribStored(FALSE)

\* C8 (amended): the same keys; the times scraped under 'Magrib' are stored under
\* 'Maghrib' unless a 'Maghrib' entry follows in the same row and overwrites them.
C8_KeysAndMagribUnlessOverwritten == TableKeysExact /\ MagribStored(TRUE)

C8_Witness ==
  /\ CurrentBuilt
  /\ \E d \in 1..Len(athanMonth) :
       /\ monthLog[d] = "actual"
       /\ athanMonth[d]["Maghrib"] = ClockTime(20, 1)
       /\ DOMAIN athanMonth[d] = ExactAthanKeys
       /\ DOMAIN iqamaMonth[d] = ExactIqamaKeys
  /\ \E i \in 1..Len(extractedData) : \E j \in 1..Len(extractedData[i].prayers) :
       extractedData[i].prayers[j].name = "Jumuah"
  /\ \E i \in 1..Len(extractedData) : \E j \in 1..Len(extractedData[i].prayers) :
       /\ extractedData[i].prayers[j].name = "Sunrise"
       /\ extractedData[i].prayers[j].iqamah # <<>>
       /\ extractedData[i].dayNumber > 0

AllCsvs == CurrentCsvs \cup NextCsvs

NoTableBuilt ==
  /\ athanMonth = <<>>
  /\ iqamaMonth = <<>>
  /\ athanNextMonth = <<>>
  /\ iqamaNextMonth = <<>>

\* C9: when the scrape yields no valid day record (no row, or only rows with
\* dayNumber <= 0) the run throws before any month expansion: the expansion is
\* never reached, no month table is built, no athan/iqama CSV is written, and the
\* exit status is 1.
C9_EmptyExtractionFails ==
  /\ [](/\ (pc = "expand" \/ CurrentBuilt) => ValidRows(extractedData) # <<>>
        /\ (pc \in {"saveRaw", "checkEmpty", "process"} /\ ValidRows(extractedData) = <<>>)
             => (NoTableBuilt /\ files \cap AllCsvs = {})
        /\ error \in {NoDataMessage, TypeErrorMessage}
             => /\ NoTableBuilt
                /\ files \cap AllCsvs = {}
                /\ exitCode # 0
                /\ pc = "exited" => exitCode = 1)
  /\ [][/\ (pc \in {"checkEmpty", "process"} /\ ValidRows(extractedData) = <<>>)
             => \/ pc = "checkEmpty" /\ extractedData # <<>> /\ pc' = "process"
                                     /\ extractedData' = extractedData
                \/ pc' = "catch" /\ error' \in {NoDataMessage, TypeErrorMessage}
        /\ error \in {NoDataMessage, TypeErrorMessage} => error' = error]_vars

C9_Witness ==
  /\ pc = "exited"
  /\ error = TypeErrorMessage
  /\ exitCode = 1
  /\ "raw_data.json" \in files
  /\ files \cap AllCsvs = {}

\* positions of the try block from the raw data write on
AfterScrape ==
  pc \in {"saveRaw", "checkEmpty", "process", "expand"} \/ CurrentBuilt

\* C10 (as claimed): once an output file (raw data, a CSV) is written, both month
\* tables are already computed and the run does not end in failure.
C10_NoOutputBeforeBothTables ==
  files \cap ({"raw_data.json"} \cup AllCsvs) # {} =>
    /\ error = "none"
    /\ AfterScrape => (athanNextMonth # <<>> /\ iqamaNextMonth # <<>>)

\* C10 (amended): each month's CSV pair is written only after that month's table
\* is fully computed, the next month pair only after the current month pair, and a
\* run that fails before the expansion has written no CSV.
C10_CsvAfterOwnTable ==
  /\ (files \cap CurrentCsvs # {} /\ AfterScrape) =>
       /\ CurrentBuilt
       /\ IsFullMonth(athanMonth, RefDaysInMonth(today.year, today.month))
       /\ IsFullMonth(iqamaMonth, RefDaysInMonth(today.year, today.month))
  /\ (files \cap NextCsvs # {} /\ AfterScrape) =>
       /\ NextBuilt
       /\ IsFullMonth(athanNextMonth,
                      RefDaysInMonth(RefNextMonth(today).year, RefNextMonth(today).month))
       /\ IsFullMonth(iqamaNextMonth,
                      RefDaysInMonth(RefNextMonth(today).year, RefNextMonth(today).month))
  /\ files \cap NextCsvs # {} => CurrentCsvs \subseteq files
  /\ error \notin {"none", CsvWriteMessage} => files \cap AllCsvs = {}

C10_Witness ==
  /\ pc = "writeIqamaNext"
  /\ {"raw_data.json", "athan_times_next.csv"} \cup CurrentCsvs \subseteq files
  /\ Len(athanNextMonth) = 31
  /\ Len(athanMonth) = 29

(***************************************************************************)
(* Another run: the tables extractPrayerTimes builds from a week sample on *)
(* a given date, by the steps of Process, Expand and ExpandNext.           *)
(***************************************************************************)
RunTables(sample, t) ==
  LET data == sortByDayNumber(processWeek(sample))
      map  == buildDayOfWeekMap(emptyMap, data)
      n    == newDate(t.year, t.month + 1, 1)
      rows == [day \in 1..daysInMonthOf(t.year, t.month) |->
                 currentDay(data, map, t.year, t.month, day)]
      next == [day \in 1..daysInMonthOf(getFullYear(n), getMonth(n)) |->
                 nextDay(data, map, getFullYear(n), getMonth(n), day)]
  IN  [athanMonth     |-> [day \in DOMAIN rows |-> spread(day, rows[day].athan)],
       iqamaMonth     |-> [day \in DOMAIN rows |-> spread(day, rows[day].iqama)],
       athanNextMonth |-> [day \in DOMAIN next |-> spread(day, next[day].athan)],
       iqamaNextMonth |-> [day \in DOMAIN next |-> spread(day, next[day].iqama)]]

\* the same rows with the Today marker on the other rows
MarkerMoved(sample) == [i \in DOMAIN sample |-> [sample[i] EXCEPT !.isToday = ~@]]

\* no two rows that pass the dayNumber filter share a dayNumber
DistinctDayNumbers(sample) ==
  \A i, j \in DOMAIN sample :
    (sample[i].dayNumber > 0 /\ sample[i].dayNumber = sample[j].dayNumber) => i = j

\* the dates of Todays in the same month of the same year as t
SameMonthDates(t) == {u \in Todays : u.year = t.year /\ u.month = t.month}

\* C11: the four month tables are a function of the week sample and the target
\* (year, month) alone: a run on any date of the same month builds the same
\* tables from the same sample, and so does a run whose sample has the Today
\* marker on other rows or, the dayNumbers being distinct, its rows in reverse
\* scrape order.
C11_TablesDependOnSampleAndMonthOnly ==
  pc = "writeAthanNext" =>
    LET built == [athanMonth |-> athanMonth, iqamaMonth |-> iqamaMonth,
                  athanNextMonth |-> athanNextMonth, iqamaNextMonth |-> iqamaNextMonth]
    IN  /\ \A u \in SameMonthDates(today) : RunTables(extractedData, u) = built
        /\ RunTables(MarkerMoved(extractedData), today) = built
        /\ DistinctDayNumbers(extractedData) =>
             RunTables(Reverse(extractedData), today) = built

C11_Witness ==
  /\ pc = "writeAthanNext"
  /\ \E u \in SameMonthDates(today) : u.date # today.date
  /\ \E i \in DOMAIN extractedData : extractedData[i].isToday
  /\ DistinctDayNumbers(extractedData)
  /\ \E i \in 1..(Len(extractedData) - 1) :
       extractedData[i].dayNumber > extractedData[i + 1].dayNumber
           /\ extractedData[i + 1].dayNumber > 0
  /\ \E d \in DOMAIN monthLog : monthLog[d] = "fallback"
  /\ \E d \in DOMAIN monthLog : monthLog[d] = "actual"

\* the records of the rows that pass the dayNumber filter, in page order
ValidRecords(data) ==
  LET v == ValidRows(data) IN [i \in 1..Len(v) |-> processDay(v[i])]

\* every row of the table carries the cells of one of the records
RowsFrom(table, records, which) ==
  \A d \in DOMAIN table :
    \E i \in DOMAIN records : IsRowOf(table[d], d, records[i][which])

\* C12: a scraped row with dayNumber <= 0 is skipped without failing the run when
\* another row is valid: the processed records are exactly the records of the
\* rows with dayNumber > 0, the day-of-week map has entries only for weekdays of
\* such rows and with their data, every row of every month table carries the
\* data of such a row, and the processing step goes on to the expansion.
C12_InvalidRowSkipped ==
  /\ [](LET valid == ValidRecords(extractedData)
        IN  /\ (pc = "expand" \/ CurrentBuilt) =>
                 /\ \A i \in DOMAIN processedWeekData : processedWeekData[i].dayNumber > 0
                 /\ Len(processedWeekData) = Len(valid)
                 /\ \A i \in DOMAIN valid :
                      \E j \in DOMAIN processedWeekData : processedWeekData[j] = valid[i]
                 /\ error = "none"
            /\ CurrentBuilt =>
                 /\ \A w \in DOMAIN dayOfWeekMap :
                      \E i \in DOMAIN valid :
                        /\ valid[i].dayOfWeek = w
                        /\ dayOfWeekMap[w] = [athan |-> valid[i].athan, iqama |-> valid[i].iqama]
                 /\ RowsFrom(athanMonth, valid, "athan")
                 /\ RowsFrom(iqamaMonth, valid, "iqama")
            /\ NextBuilt =>
                 /\ RowsFrom(athanNextMonth, valid, "athan")
                 /\ RowsFrom(iqamaNextMonth, valid, "iqama"))
  /\ [][(pc = "process" /\ ValidRows(extractedData) # <<>>)
          => (pc' = "expand" /\ error' = "none")]_vars

C12_Witness ==
  /\ pc = "writeIqamaNext"
  /\ \E i \in DOMAIN extractedData :
       /\ extractedData[i].dayNumber = 0
       /\ extractedData[i].dayOfWeek >= 0
       /\ extractedData[i].dayOfWeek \notin DOMAIN dayOfWeekMap
       /\ extractedData[i].prayers # <<>>
       /\ i = 1
  /\ Len(processedWeekData) = Len(extractedData) - 1
  /\ \E d \in DOMAIN monthLog : monthLog[d] = "fallback"
  /\ \E d \in DOMAIN monthLog : monthLog[d] = "actual"

(***************************************************************************)
(* Claims about the day text (SpecParse).                                  *)
(***************************************************************************)
RefDayNames ==
  <<<<"S", "u", "n">>, <<"M", "o", "n">>, <<"T", "u", "e">>, <<"W", "e", "d">>,
    <<"T", "h", "u">>, <<"F", "r", "i">>, <<"S", "a", "t">>>>

\* 0..6 for the seven abbreviations, -1 for any other word
RefDayIndex(word) ==
  IF \E w \in 1..7 : RefDayNames[w] = word
  THEN (CHOOSE w \in 1..7 : RefDayNames[w] = word) - 1
  ELSE -1

RefDigitChars == {"0", "1", "2", "3", "4", "5", "6", "7", "8", "9"}

RefDigit(c) ==
  CASE c = "0" -> 0 [] c = "1" -> 1 [] c = "2" -> 2 [] c = "3" -> 3 [] c = "4" -> 4
    [] c = "5" -> 5 [] c = "6" -> 6 [] c = "7" -> 7 [] c = "8" -> 8 [] c = "9" -> 9

\* the decimal value of a string of digits
RECURSIVE RefNumber(_)
RefNumber(d) ==
  IF d = <<>> THEN 0
  ELSE 10 * RefNumber(SubSeq(d, 1, Len(d) - 1)) + RefDigit(d[Len(d)])

\* s[a..b] is not empty and all its characters are in chars
RefAllIn(s, a, b, chars) == a <= b /\ \A k \in a..b : s[k] \in chars

\* somewhere in s a digit, then white space, then a word character
RefHasDigitsGapWord(s) ==
  \E i, k \in 1..Len(s) :
    /\ s[i] \in RefDigitChars
    /\ RefAllIn(s, i + 1, k - 1, {" "})
    /\ s[k] \in RefDigitChars \cup Letters \cup {"_"}

\* somewhere in s a digit, then white space, then a weekday abbreviation
RefHasDayText(s) ==
  \E i, k \in 1..Len(s) :
    /\ s[i] \in RefDigitChars
    /\ RefAllIn(s, i + 1, k - 1, {" "})
    /\ k + 2 <= Len(s)
    /\ \E w \in 1..7 : SubSeq(s, k, k + 2) = RefDayNames[w]

\* C13 (as claimed): every dateday value that is not '<digits> <weekday>' with a
\* recognised three-letter weekday yields dayNumber 0 and dayOfWeek -1 and the
\* row is dropped.
C13_UnrecognisedGivesZero ==
  (cv.pc = "parsed" /\ ~RefHasDayText(cv.text)) =>
    (cv.dayNumber = 0 /\ cv.dayOfWeek = -1 /\ ~cv.kept)

\* C13 (amended): a dateday value with no digits followed by white space and a
\* word yields dayNumber 0 and dayOfWeek -1 and the row is dropped; a value
\* '<digits> <word>' yields the value of the digits as dayNumber and the index of
\* the word as dayOfWeek when the word is one of Sun .. Sat, -1 otherwise, and
\* the row is dropped only when the digits have the value 0; a recognised weekday
\* always comes from a text holding '<digits> <weekday>'.
C13_DigitsThenWordKeepsDayNumber ==
  cv.pc = "parsed" =>
    LET s == cv.text
    IN  /\ ~RefHasDigitsGapWord(s) =>
             (cv.dayNumber = 0 /\ cv.dayOfWeek = -1 /\ ~cv.kept)
        /\ \A a, b \in 1..Len(s) :
             (/\ RefAllIn(s, 1, a, RefDigitChars)
              /\ RefAllIn(s, a + 1, b, {" "})
              /\ RefAllIn(s, b + 1, Len(s), RefDigitChars \cup Letters \cup {"_"}))
             => /\ cv.dayNumber = RefNumber(SubSeq(s, 1, a))
                /\ cv.dayOfWeek = RefDayIndex(SubSeq(s, b + 1, Len(s)))
                /\ cv.kept = (RefNumber(SubSeq(s, 1, a)) > 0)
        /\ cv.kept = (cv.dayNumber > 0)
        /\ cv.dayOfWeek >= 0 => RefHasDayText(s)

C13_Witness ==
  /\ cv.pc = "parsed"
  /\ cv.text = <<"5", " ", "X", "y", "z">>
  /\ cv.dayNumber = 5
  /\ cv.dayOfWeek = -1
  /\ cv.kept

(***************************************************************************)
(* Claims about the resolution of the month-table rows (Spec).             *)
(***************************************************************************)
\* the records are in ascending dayNumber order
IsSortedByDay(data) ==
  \A i \in 1..(Len(data) - 1) : data[i].dayNumber <= data[i + 1].dayNumber

\* the first record in the sequence that carries day number d, 0 if none
RefExactIndex(data, d) ==
  IF \E i \in DOMAIN data : data[i].dayNumber = d
  THEN CHOOSE i \in DOMAIN data :
         data[i].dayNumber = d /\ \A j \in DOMAIN data : data[j].dayNumber = d => i <= j
  ELSE 0

\* the source a row resolves to from the weekday w: the map entry, else first record
RefPatternElseFirst(data, map, w) ==
  IF w \in DOMAIN map THEN [src |-> "pattern", cells |-> map[w]]
  ELSE [src |-> "fallback", cells |-> [athan |-> data[1].athan, iqama |-> data[1].iqama]]

\* C14: each current-month row of day d carries the data of the sampled record
\* with dayNumber d when there is one (whatever its weekday), otherwise of the
\* day-of-week map entry for the calendar weekday of d, otherwise of the first
\* record in dayNumber order, and the branch logged is that one; each next-month
\* row comes from the map entry or else the first record, never from a record
\* with the same dayNumber as such.
C14_RowPriority ==
  /\ CurrentBuilt =>
       /\ IsSortedByDay(processedWeekData)
       /\ \A d \in DOMAIN athanMonth :
            LET i == RefExactIndex(processedWeekData, d)
                r == RefPatternElseFirst(processedWeekData, dayOfWeekMap,
                                         RefWeekday(today.year, today.month, d))
            IN  IF i # 0
                THEN /\ monthLog[d] = "actual"
                     /\ IsRowOf(athanMonth[d], d, processedWeekData[i].athan)
                     /\ IsRowOf(iqamaMonth[d], d, processedWeekData[i].iqama)
                ELSE /\ monthLog[d] = r.src
                     /\ IsRowOf(athanMonth[d], d, r.cells.athan)
                     /\ IsRowOf(iqamaMonth[d], d, r.cells.iqama)
  /\ NextBuilt =>
       LET n == RefNextMonth(today)
       IN  \A d \in DOMAIN athanNextMonth :
             LET r == RefPatternElseFirst(processedWeekData, dayOfWeekMap,
                                          RefWeekday(n.year, n.month, d))
             IN  /\ IsRowOf(athanNextMonth[d], d, r.cells.athan)
                 /\ IsRowOf(iqamaNextMonth[d], d, r.cells.iqama)

C14_Witness ==
  /\ pc = "writeIqamaNext"
  /\ \E d \in DOMAIN athanMonth :
       LET i == RefExactIndex(processedWeekData, d)
           w == RefWeekday(today.year, today.month, d)
       IN  /\ i # 0
           /\ processedWeekData[i].dayOfWeek # w
           /\ w \in DOMAIN dayOfWeekMap
           /\ dayOfWeekMap[w].athan # processedWeekData[i].athan
           /\ IsRowOf(athanMonth[d], d, processedWeekData[i].athan)
  /\ \E d \in DOMAIN athanNextMonth :
       LET i == RefExactIndex(processedWeekData, d)
       IN  i # 0 /\ ~IsRowOf(athanNextMonth[d], d, processedWeekData[i].athan)
  /\ \E d \in DOMAIN monthLog : monthLog[d] = "pattern"
  /\ \E d \in DOMAIN monthLog : monthLog[d] = "fallback"

\* among the records (in scrape order) those of weekday w
RefOfWeekday(records, w) == {i \in DOMAIN records : records[i].dayOfWeek = w}

\* of these the one with the greatest dayNumber, the later scraped among equals
RefWinner(records, among) ==
  CHOOSE i \in among :
    \A j \in among :
      \/ records[j].dayNumber < records[i].dayNumber
      \/ records[j].dayNumber = records[i].dayNumber /\ j <= i

\* C15: whatever order the rows were scraped in, the day-of-week map holds for
\* each weekday w of 0..6 the athan/iqama of the valid record with dayOfWeek w
\* that has the greatest dayNumber (the later scraped one among equal dayNumbers),
\* has no entry for a weekday no valid record carries, and none for -1.
C15_MapHoldsGreatestDayNumber ==
  CurrentBuilt =>
    LET valid == ValidRecords(extractedData)
    IN  /\ DOMAIN dayOfWeekMap = {w \in 0..6 : RefOfWeekday(valid, w) # {}}
        /\ -1 \notin DOMAIN dayOfWeekMap
        /\ \A w \in DOMAIN dayOfWeekMap :
             LET r == valid[RefWinner(valid, RefOfWeekday(valid, w))]
             IN  dayOfWeekMap[w] = [athan |-> r.athan, iqama |-> r.iqama]

C15_Witness ==
  /\ pc = "writeAthan"
  /\ \E i, j \in DOMAIN extractedData :
       /\ i < j
       /\ extractedData[j].dayNumber > 0
       /\ extractedData[i].dayNumber > extractedData[j].dayNumber
       /\ extractedData[i].dayOfWeek = extractedData[j].dayOfWeek
       /\ extractedData[i].dayOfWeek \in DOMAIN dayOfWeekMap
       /\ dayOfWeekMap[extractedData[i].dayOfWeek].athan = processDay(extractedData[i]).athan
       /\ processDay(extractedData[i]).athan # processDay(extractedData[j]).athan
  /\ DOMAIN dayOfWeekMap # 0..6

(***************************************************************************)
(* Claims about the browser and the exit status (SpecLive).                *)
(***************************************************************************)
\* C16: once the browser has been launched the run eventually closes it and then
\* exits; it is closed exactly once, never reopened, and before the process
\* exits, on the success path and on every failure path; the exit status is 0
\* only if all four CSV files were written and 1 otherwise.
C16_BrowserClosedOnceThenExit ==
  /\ (browser = "open") ~> (browser = "closed" /\ closeCount = 1)
  /\ (browser = "open") ~> (pc = "exited")
  /\ [](/\ closeCount = (IF browser = "closed" THEN 1 ELSE 0)
        /\ pc = "exited" => browser \in {"null", "closed"}
        /\ pc = "exited" => exitCode \in {0, 1}
        /\ exitCode = 0 => AllCsvs \subseteq files
        /\ (pc = "exited" /\ ~(AllCsvs \subseteq files)) => exitCode = 1)
  /\ [][/\ browser = "closed" => browser' = "closed"
        /\ browser' = "null" => error' = "launch failed" \/ pc' = "launch"
        /\ pc = "exited" => pc' = "exited"]_vars

C16_Witness ==
  /\ pc = "exited"
  /\ browser = "closed"
  /\ closeCount = 1
  /\ error = CsvWriteMessage
  /\ CurrentCsvs \subseteq files
  /\ "athan_times_next.csv" \notin files
  /\ exitCode = 1

====
